---- MODULE Spec2Model ----
(***************************************************************************)
(* Model of Palladium.configure_main (src/palladium.py): the generation of *)
(* the emulation filelist <name>.emu.f and the simulation filelist         *)
(* <name>.sim.f from the resolved source files of a design.                *)
(*                                                                         *)
(* Text is modelled as sequences of one-character strings, so that         *)
(* formatting, joining and writing are real concatenations.                *)
(***************************************************************************)
EXTENDS Integers, Sequences, FiniteSets, TLC

\* Largest number of descriptors in src_files.
MaxFiles == 2
\* Largest number of successive calls of configure_main.
MaxCalls == 2

----------------------------------------------------------------------------
(* Text constants of the source.                                           *)

NL == <<"\n">>
SP == <<" ">>
S_sv == <<"-", "s", "v">>
S_lib == <<"-", "l", "i", "b", " ">>
S_define == <<"+", "d", "e", "f", "i", "n", "e", "+">>
S_incdir == <<"+", "i", "n", "c", "d", "i", "r", "+">>
S_eq == <<"=">>
S_None == <<"N", "o", "n", "e">>

----------------------------------------------------------------------------
(* Python values.                                                          *)

\* An optional string: None or a str.
PyNone == [none |-> TRUE, s |-> <<>>]
PyStr(s) == [none |-> FALSE, s |-> s]

\* A parameter value: str, int or bool.
VStr(s) == [t |-> "str", s |-> s, n |-> 0, b |-> FALSE]
VInt(n) == [t |-> "int", s |-> <<>>, n |-> n, b |-> FALSE]
VBool(b) == [t |-> "bool", s |-> <<>>, n |-> 0, b |-> b]

Digit(d) == <<"0", "1", "2", "3", "4", "5", "6", "7", "8", "9">>[d + 1]

RECURSIVE IntStr(_)
\* str(n) for a natural number n.
IntStr(n) == IF n < 10 THEN <<Digit(n)>> ELSE IntStr(n \div 10) \o <<Digit(n % 10)>>

\* EdaBridge._param_value_str: the canonical text of a parameter value.
ParamValueStr(v) ==
    CASE v.t = "str" -> v.s
      [] v.t = "int" -> IntStr(v.n)
      [] v.t = "bool" -> IF v.b THEN <<"T", "r", "u", "e">> ELSE <<"F", "a", "l", "s", "e">>

\* str(x) of an optional string inside an f-string.
FmtOpt(x) == IF x.none THEN S_None ELSE x.s

\* Truth value of an optional string.
Truthy(x) == ~x.none /\ Len(x.s) > 0

RECURSIVE join(_, _)
\* sep.join(parts)
join(sep, parts) ==
    IF Len(parts) = 0 THEN <<>>
    ELSE IF Len(parts) = 1 THEN parts[1]
    ELSE parts[1] \o sep \o join(sep, Tail(parts))

----------------------------------------------------------------------------
(* Inputs: the File objects returned by _get_fileset_files and the         *)
(* attributes of the Edatool object.                                       *)

\* A File object.  attrs holds the names of the optional attributes the
\* object carries (what hasattr sees); is_include_file and partof are only
\* meaningful when their name is in attrs.
File(name, file_type, logical_name, attrs, is_include_file, partof) ==
    [name |-> name, file_type |-> file_type, logical_name |-> logical_name,
     attrs |-> attrs, is_include_file |-> is_include_file, partof |-> partof]

hasattr(f, a) == a \in f.attrs

FileTypes == {"verilogSource", "systemVerilogSource", "vhdlSource"}

\* The path of a file of each type.
NameOf(file_type) ==
    CASE file_type = "verilogSource" -> <<"t", "b", ".", "v">>
      [] file_type = "systemVerilogSource" -> <<"d", "u", "t", ".", "s", "v">>
      [] file_type = "vhdlSource" -> <<"x", ".", "v", "h", "d">>

S_worklib == <<"w", "o", "r", "k", "l", "i", "b">>

\* include attribute: absent, present and False, present and True.
IncludeChoices == {<<FALSE, FALSE>>, <<TRUE, FALSE>>, <<TRUE, TRUE>>}
\* partof attribute: absent, "dut", another value.
PartofChoices == {<<FALSE, "">>, <<TRUE, "dut">>, <<TRUE, "tb">>}

MkFile(ft, ln, inc, po) ==
    File(NameOf(ft), ft, ln,
         (IF inc[1] THEN {"is_include_file"} ELSE {}) \cup (IF po[1] THEN {"partof"} ELSE {}),
         inc[2], po[2])

NoInclude == <<FALSE, FALSE>>
NoPartof == <<FALSE, "">>
DutPartof == <<TRUE, "dut">>

\* The descriptors the input lists are drawn from.  With an empty library
\* name: the SystemVerilog files with every include and partof attribute,
\* the Verilog files with every include attribute, in and out of the device
\* under test, the VHDL files in and out of the device under test.  With a
\* library name or None: the compiled SystemVerilog files.
Descriptors ==
    {MkFile("systemVerilogSource", PyStr(<<>>), inc, po) :
        inc \in IncludeChoices, po \in PartofChoices}
    \cup {MkFile("verilogSource", PyStr(<<>>), inc, po) :
        inc \in IncludeChoices, po \in {NoPartof, DutPartof}}
    \cup {MkFile("vhdlSource", PyStr(<<>>), NoInclude, po) : po \in {NoPartof, DutPartof}}
    \cup {MkFile("systemVerilogSource", ln, NoInclude, po) :
        ln \in {PyNone, PyStr(S_worklib)}, po \in {NoPartof, DutPartof}}

SeqsUpTo(S, n) == UNION {[1..k -> S] : k \in 0..n}

\* Tool configurations: vlogdefine and vlogparam as ordered (key, value)
\* items of the dicts, incdirs, and tool_options as the set of its keys
\* and the value under 'vlan_opts'.
Item(k, v) == [k |-> k, v |-> v]
Config(vd, vp, inc, keys, vo) ==
    [vlogdefine |-> vd, vlogparam |-> vp, incdirs |-> inc,
     tool_options |-> [keys |-> keys, vlan_opts |-> vo]]

Configs ==
    { Config(<<>>, <<>>, <<>>, {}, <<>>),
      Config(<<Item(<<"F", "O", "O">>, VInt(1))>>, <<>>, <<<<"/", "i", "n", "c">>>>,
             {"vlan_opts"}, <<>>),
      Config(<<Item(<<"E">>, VStr(<<>>)), Item(<<"B">>, VBool(TRUE))>>,
             <<Item(<<"W">>, VInt(16)), Item(<<"S">>, VStr(<<"x">>))>>,
             <<<<"/", "i">>, <<"/", "j">>>>,
             {"vlan_opts"}, <<<<"-", "a">>, <<"-", "b">>>>) }

\* A line left in a file by an earlier, unrelated build.
StaleData == <<"o", "l", "d", ".", "v", "\n">>

----------------------------------------------------------------------------
VARIABLES
    src_files,    \* the File objects, in order
    cfg,          \* vlogdefine, vlogparam, incdirs, tool_options
    pc,           \* position in configure_main, or its outcome
    calls,        \* number of calls of configure_main started
    i,            \* index in src_files of the next descriptor of the loop
    disk,         \* the two files on disk: exists, data
    efh, sfh,     \* the two file objects: state, buf
    err,          \* which open() of the current call failed
    emu_log,      \* history: the write() calls on efh of the current call
    sim_log,      \* history: the write() calls on sfh of the current call
    first         \* history: the files after the first call that returned

vars == <<src_files, cfg, pc, calls, i, disk, efh, sfh, err, emu_log, sim_log, first>>

inputs == <<src_files, cfg>>

----------------------------------------------------------------------------
(* The line of a file (lines 135-149).                                     *)

\* Variant: the file type is not looked at.
IsSource_any(f) == f.file_type \in FileTypes

\* line 130
IsSource(f) == f.file_type \in {"verilogSource", "systemVerilogSource"}

\* lines 132-133
IsSkippedInclude(f) == hasattr(f, "is_include_file")

\* lines 137-138
SvArgs(f) == IF f.file_type = "systemVerilogSource" THEN <<S_sv>> ELSE <<>>

\* Variant: the library name is tested against None only.
LibArgs_notNone(f) == IF ~f.logical_name.none THEN <<S_lib \o FmtOpt(f.logical_name)>> ELSE <<>>

\* lines 139-140
LibArgs(f) == IF Truthy(f.logical_name) THEN <<S_lib \o FmtOpt(f.logical_name)>> ELSE <<>>

\* Variant: "=VALUE" is left out when the value formats to the empty text.
DefineArg_omitEmpty(k, v) ==
    IF Len(ParamValueStr(v)) = 0 THEN S_define \o k ELSE S_define \o k \o S_eq \o ParamValueStr(v)

\* line 142
DefineArg(k, v) == S_define \o k \o S_eq \o ParamValueStr(v)

\* line 144
ParamArg(k, v) == k \o S_eq \o ParamValueStr(v)

\* line 146
IncdirArg(d) == S_incdir \o d

\* tool_options.get('vlan_opts', '')
GetVlanOpts(to) == IF "vlan_opts" \in to.keys THEN to.vlan_opts ELSE <<>>

\* lines 147-148
VlanArgs(to) == IF Len(GetVlanOpts(to)) > 0 THEN <<join(SP, GetVlanOpts(to))>> ELSE <<>>

\* Variant: the include directories are appended before the defines.
ComposeArgs_incdirFirst(f, c) ==
    SvArgs(f)
    \o LibArgs(f)
    \o [k \in 1..Len(c.incdirs) |-> IncdirArg(c.incdirs[k])]
    \o [k \in 1..Len(c.vlogdefine) |-> DefineArg(c.vlogdefine[k].k, c.vlogdefine[k].v)]
    \o [k \in 1..Len(c.vlogparam) |-> ParamArg(c.vlogparam[k].k, c.vlogparam[k].v)]
    \o VlanArgs(c.tool_options)
    \o <<f.name>>

\* lines 136-149: the list args of one file
ComposeArgs(f, c) ==
    SvArgs(f)
    \o LibArgs(f)
    \o [k \in 1..Len(c.vlogdefine) |-> DefineArg(c.vlogdefine[k].k, c.vlogdefine[k].v)]
    \o [k \in 1..Len(c.vlogparam) |-> ParamArg(c.vlogparam[k].k, c.vlogparam[k].v)]
    \o [k \in 1..Len(c.incdirs) |-> IncdirArg(c.incdirs[k])]
    \o VlanArgs(c.tool_options)
    \o <<f.name>>

\* lines 152, 154: the text given to write()
LineText(f, c) == join(SP, ComposeArgs(f, c)) \o NL

\* line 151
IsDut(f) == hasattr(f, "partof") /\ f.partof = "dut"

----------------------------------------------------------------------------
(* Files.                                                                  *)

NoHandle == [state |-> "unset", buf |-> <<>>]

\* Variant: the file is opened for appending.
open_a(file) == [exists |-> TRUE, data |-> file.data]

\* open(path, 'w'): the file is created or truncated.
open_w(file) == [exists |-> TRUE, data |-> <<>>]

\* Variant: the text is put in front of the buffered text.
write_front(buf, text) == text \o buf

\* fh.write(text): the text goes to the buffer of the file object.
write(buf, text) == buf \o text

\* Variant: close() drops the buffered text.
close_noflush(file, fh) == file

\* fh.close(): the buffer is flushed to the file.
close_data(file, fh) == [file EXCEPT !.data = file.data \o fh.buf]
close_fh(fh) == [state |-> "closed", buf |-> <<>>]

\* Variant: the exception of open() is swallowed.
AfterOpen_swallow(ok, next) == next

\* The position after an open(): an exception of open() is not caught.
AfterOpen(ok, next) == IF ok THEN next ELSE "raised"

----------------------------------------------------------------------------
Init ==
    /\ src_files \in SeqsUpTo(Descriptors, MaxFiles)
    /\ cfg \in Configs
    /\ pc = "start"
    /\ calls = 1
    /\ i = 1
    /\ disk = [emu |-> [exists |-> FALSE, data |-> <<>>],
               sim |-> [exists |-> TRUE, data |-> StaleData]]
    /\ efh = NoHandle
    /\ sfh = NoHandle
    /\ err = "none"
    /\ emu_log = <<>>
    /\ sim_log = <<>>
    /\ first = [set |-> FALSE, call |-> 0, disk |-> disk]

\* lines 118-125: _dump, _get_fileset_files, open of the emulation filelist
OpenEmu ==
    /\ pc = "start"
    /\ \E ok \in BOOLEAN :
        /\ pc' = AfterOpen(ok, "open_sim")
        /\ IF ok
           THEN /\ disk' = [disk EXCEPT !.emu = open_w(disk.emu)]
                /\ efh' = [state |-> "open", buf |-> <<>>]
                /\ err' = err
           ELSE /\ err' = "emu"
                /\ UNCHANGED <<disk, efh>>
    /\ UNCHANGED <<inputs, calls, i, sfh, emu_log, sim_log, first>>

\* lines 126-127: open of the simulation filelist
OpenSim ==
    /\ pc = "open_sim"
    /\ \E ok \in BOOLEAN :
        /\ pc' = AfterOpen(ok, "loop")
        /\ IF ok
           THEN /\ disk' = [disk EXCEPT !.sim = open_w(disk.sim)]
                /\ sfh' = [state |-> "open", buf |-> <<>>]
                /\ err' = err
           ELSE /\ err' = "sim"
                /\ UNCHANGED <<disk, sfh>>
    /\ UNCHANGED <<inputs, calls, i, efh, emu_log, sim_log, first>>

\* lines 129-154: one iteration of the loop over src_files
LoopStep ==
    /\ pc = "loop"
    /\ i <= Len(src_files)
    /\ LET f == src_files[i]
           text == LineText(f, cfg)
       IN IF IsSource(f) /\ ~IsSkippedInclude(f)
          THEN IF IsDut(f)
               THEN /\ efh' = [efh EXCEPT !.buf = write(efh.buf, text)]
                    /\ emu_log' = Append(emu_log, [src |-> i, text |-> text])
                    /\ UNCHANGED <<sfh, sim_log>>
               ELSE /\ sfh' = [sfh EXCEPT !.buf = write(sfh.buf, text)]
                    /\ sim_log' = Append(sim_log, [src |-> i, text |-> text])
                    /\ UNCHANGED <<efh, emu_log>>
          ELSE UNCHANGED <<efh, sfh, emu_log, sim_log>>
    /\ i' = i + 1
    /\ UNCHANGED <<inputs, pc, calls, disk, err, first>>

\* line 156: efh.close()
CloseEmu ==
    /\ pc = "loop"
    /\ i > Len(src_files)
    /\ disk' = [disk EXCEPT !.emu = close_data(disk.emu, efh)]
    /\ efh' = close_fh(efh)
    /\ pc' = "close_sim"
    /\ UNCHANGED <<inputs, calls, i, sfh, err, emu_log, sim_log, first>>

\* line 157: sfh.close(), and the return
CloseSim ==
    /\ pc = "close_sim"
    /\ disk' = [disk EXCEPT !.sim = close_data(disk.sim, sfh)]
    /\ sfh' = close_fh(sfh)
    /\ pc' = "returned"
    /\ first' = IF first.set THEN first ELSE [set |-> TRUE, call |-> calls, disk |-> disk']
    /\ UNCHANGED <<inputs, calls, i, efh, err, emu_log, sim_log>>

\* After a call that returned, the caller runs configure_main again on the
\* same object and inputs; a call that raised ends the build.
Call ==
    /\ pc = "returned"
    /\ calls < MaxCalls
    /\ calls' = calls + 1
    /\ pc' = "start"
    /\ i' = 1
    /\ efh' = NoHandle
    /\ sfh' = NoHandle
    /\ err' = "none"
    /\ emu_log' = <<>>
    /\ sim_log' = <<>>
    /\ UNCHANGED <<inputs, disk, first>>

Next == OpenEmu \/ OpenSim \/ LoopStep \/ CloseEmu \/ CloseSim \/ Call

Spec == Init /\ [][Next]_vars

TypeOK ==
    /\ pc \in {"start", "open_sim", "loop", "close_sim", "returned", "raised"}
    /\ calls \in 1..MaxCalls
    /\ i \in 1..(Len(src_files) + 1)
    /\ err \in {"none", "emu", "sim"}
----------------------------------------------------------------------------
(* Reading the files back.                                                 *)

\* The k-th smallest member of a set of integers.
Nth(S, k) == CHOOSE x \in S : Cardinality({y \in S : y < x}) = k - 1

\* The pieces of s between the occurrences of the character c.
Split(s, c) ==
    LET cuts == {0, Len(s) + 1} \cup {n \in 1..Len(s) : s[n] = c}
        at == [k \in 1..Cardinality(cuts) |-> Nth(cuts, k)]
    IN [k \in 1..(Len(at) - 1) |-> SubSeq(s, at[k] + 1, at[k + 1] - 1)]

\* The lines of a file: the newline-terminated pieces, and a last piece
\* without newline if there is one.
Lines(data) ==
    LET p == Split(data, "\n")
    IN IF p[Len(p)] = <<>> THEN SubSeq(p, 1, Len(p) - 1) ELSE p

\* The space-separated fields of a line.
Words(line) == Split(line, " ")

HasWord(line, w) == LET ws == Words(line) IN \E n \in 1..Len(ws) : ws[n] = w

RECURSIVE Flat(_)
\* The concatenation of the texts of a log.
Flat(log) == IF Len(log) = 0 THEN <<>> ELSE log[1].text \o Flat(Tail(log))

Srcs(log) == {log[n].src : n \in 1..Len(log)}

\* Number of lines a descriptor has in a log.
Count(log, k) == Cardinality({n \in 1..Len(log) : log[n].src = k})

\* The predicates of the specification on a descriptor.
IsIncludeOnly(f) == hasattr(f, "is_include_file") /\ f.is_include_file
Eligible(f) == f.file_type \in {"verilogSource", "systemVerilogSource"} /\ ~IsIncludeOnly(f)
BelongsToDeviceUnderTest(f) == hasattr(f, "partof") /\ f.partof = "dut"

Idx == 1..Len(src_files)
EligibleIdx == {k \in Idx : Eligible(src_files[k])}

\* The files hold exactly the texts written in the current call.
Complete ==
    /\ disk.emu.exists /\ disk.sim.exists
    /\ disk.emu.data = Flat(emu_log)
    /\ disk.sim.data = Flat(sim_log)

\* The lines of the files are the lines of the logs, one for one.
LinesMatchLogs ==
    LET el == Lines(disk.emu.data)
        sl == Lines(disk.sim.data)
    IN /\ Len(el) = Len(emu_log)
       /\ Len(sl) = Len(sim_log)
       /\ \A n \in 1..Len(emu_log) : el[n] \o NL = emu_log[n].text
       /\ \A n \in 1..Len(sim_log) : sl[n] \o NL = sim_log[n].text

----------------------------------------------------------------------------
(* Claims.                                                                 *)

\* C1: when configure_main has returned, every eligible descriptor (Verilog
\* or SystemVerilog, not include-only, an include attribute set to False
\* included) has exactly one line in exactly one of the two files, and the
\* two files together hold as many lines as there are eligible descriptors.
C1_ExactlyOneLine ==
    pc = "returned" =>
        /\ LinesMatchLogs
        /\ \A k \in EligibleIdx : Count(emu_log, k) + Count(sim_log, k) = 1
        /\ Len(Lines(disk.emu.data)) + Len(Lines(disk.sim.data)) = Cardinality(EligibleIdx)

\* C2: a descriptor of another type than Verilog/SystemVerilog, or flagged
\* include-only, never gets a line in either file, whatever its other
\* flags; the files hold no other lines than the ones written for the
\* remaining descriptors.
C2_IneligibleNeverWritten ==
    /\ \A k \in Idx \ EligibleIdx : k \notin Srcs(emu_log) \cup Srcs(sim_log)
    /\ pc = "returned" =>
        /\ LinesMatchLogs
        /\ Len(Lines(disk.emu.data)) + Len(Lines(disk.sim.data)) <= Cardinality(EligibleIdx)

C2_Witness ==
    /\ pc = "returned"
    /\ Len(emu_log) > 0
    /\ \E k \in Idx \ EligibleIdx : BelongsToDeviceUnderTest(src_files[k])

\* C3: when configure_main has returned, the line of every eligible
\* descriptor is in the emulation file if the descriptor belongs to the
\* device under test, and in the simulation file otherwise.
C3_Classification ==
    pc = "returned" =>
        /\ LinesMatchLogs
        /\ \A k \in EligibleIdx :
            IF BelongsToDeviceUnderTest(src_files[k])
            THEN Count(emu_log, k) = 1 /\ Count(sim_log, k) = 0
            ELSE Count(sim_log, k) = 1 /\ Count(emu_log, k) = 0

\* The fields of the line of a descriptor, as the specification orders them.
ExpectedWords(f, c) ==
    (IF f.file_type = "systemVerilogSource" THEN <<S_sv>> ELSE <<>>)
    \o (IF ~f.logical_name.none /\ f.logical_name.s # <<>>
        THEN <<<<"-", "l", "i", "b">>, f.logical_name.s>> ELSE <<>>)
    \o [k \in 1..Len(c.vlogdefine) |->
            S_define \o c.vlogdefine[k].k \o S_eq \o ParamValueStr(c.vlogdefine[k].v)]
    \o [k \in 1..Len(c.vlogparam) |->
            c.vlogparam[k].k \o S_eq \o ParamValueStr(c.vlogparam[k].v)]
    \o [k \in 1..Len(c.incdirs) |-> S_incdir \o c.incdirs[k]]
    \o (IF "vlan_opts" \in c.tool_options.keys THEN c.tool_options.vlan_opts ELSE <<>>)
    \o <<f.name>>

\* C4: the fields of every line of the two files are, in this order: the
\* SystemVerilog flag (SystemVerilog files only), the library flag and
\* name (non-empty library name only), the defines, the parameters, the
\* include directories, the extra tool tokens, each in the order of its
\* input collection, and the path last; single spaces separate the fields.
C4_FieldOrder ==
    pc = "returned" =>
        LET el == Lines(disk.emu.data)
            sl == Lines(disk.sim.data)
        IN /\ Len(el) = Len(emu_log)
           /\ Len(sl) = Len(sim_log)
           /\ \A n \in 1..Len(emu_log) :
                Words(el[n]) = ExpectedWords(src_files[emu_log[n].src], cfg)
           /\ \A n \in 1..Len(sim_log) :
                Words(sl[n]) = ExpectedWords(src_files[sim_log[n].src], cfg)

\* All kinds of field on one line.
C4_Witness ==
    /\ pc = "returned"
    /\ Len(cfg.vlogdefine) = 2 /\ Len(cfg.vlogparam) = 2 /\ Len(cfg.incdirs) = 2
    /\ Len(cfg.tool_options.vlan_opts) = 2
    /\ \E n \in 1..Len(emu_log) : Truthy(src_files[emu_log[n].src].logical_name)

AllLines == Lines(disk.emu.data) \o Lines(disk.sim.data)

\* C5 as stated: on every line, the define token of an entry is
\* +define+NAME=VALUE when the text of the value is not empty, and
\* +define+NAME, without "=", when it is empty.
C5_OmitEmptyValue ==
    pc = "returned" =>
        LET all == AllLines
        IN \A n \in 1..Len(all) : \A k \in 1..Len(cfg.vlogdefine) :
            LET name == cfg.vlogdefine[k].k
                text == ParamValueStr(cfg.vlogdefine[k].v)
            IN IF text = <<>>
               THEN HasWord(all[n], S_define \o name)
                    /\ ~HasWord(all[n], S_define \o name \o S_eq)
               ELSE HasWord(all[n], S_define \o name \o S_eq \o text)

\* C5 amended: on every line, the define token of an entry is always
\* +define+NAME=VALUE; for a value with empty text it is +define+NAME=,
\* the "=" kept and nothing after it.
C5_AlwaysEquals ==
    pc = "returned" =>
        LET all == AllLines
        IN \A n \in 1..Len(all) : \A k \in 1..Len(cfg.vlogdefine) :
            LET name == cfg.vlogdefine[k].k
                text == ParamValueStr(cfg.vlogdefine[k].v)
            IN /\ HasWord(all[n], S_define \o name \o S_eq \o text)
               /\ ~HasWord(all[n], S_define \o name)

C5_Witness ==
    /\ pc = "returned"
    /\ Len(AllLines) > 0
    /\ \E k \in 1..Len(cfg.vlogdefine) : ParamValueStr(cfg.vlogdefine[k].v) = <<>>
    /\ \E k \in 1..Len(cfg.vlogdefine) : ParamValueStr(cfg.vlogdefine[k].v) # <<>>

\* C6: after a second call with the same inputs has returned, both files
\* are what they were after the first call that returned: the earlier
\* contents are truncated, no line is kept or duplicated.
C6_RerunIdentical ==
    (pc = "returned" /\ first.set) => disk = first.disk

C6_Witness ==
    /\ pc = "returned"
    /\ first.set /\ first.call < calls
    /\ Len(emu_log) > 0 /\ Len(sim_log) > 0

\* C7: both files exist and are open before a descriptor is processed;
\* when configure_main has returned, both exist, are closed and hold
\* exactly the lines written for them, none when nothing was written.
C7_Lifecycle ==
    /\ pc = "loop" =>
        /\ disk.emu.exists /\ disk.sim.exists
        /\ efh.state = "open" /\ sfh.state = "open"
    /\ (i > 1 \/ Len(emu_log) + Len(sim_log) > 0) => pc \in {"loop", "close_sim", "returned"}
    /\ pc = "returned" =>
        /\ efh.state = "closed" /\ sfh.state = "closed"
        /\ Complete
        /\ (EligibleIdx = {} => disk.emu.data = <<>> /\ disk.sim.data = <<>>)

C7_Witness ==
    /\ pc = "returned"
    /\ calls = 1
    /\ Len(emu_log) = 2
    /\ sim_log = <<>> /\ disk.sim.data = <<>>

\* C8: a failed open() ends the call with the error, never with a return;
\* a call that returns has written both files completely.
C8_OpenFailure ==
    /\ err # "none" => pc = "raised"
    /\ pc = "raised" => err # "none"
    /\ pc = "returned" => err = "none" /\ Complete
    /\ (err = "emu" /\ calls = 1) => ~disk.emu.exists

C8_Witness ==
    /\ pc = "raised"
    /\ err = "sim"
    /\ disk.emu.exists /\ disk.emu.data = <<>>
    /\ disk.sim.data = StaleData

NoExtraTokens(c) == "vlan_opts" \notin c.tool_options.keys \/ c.tool_options.vlan_opts = <<>>
NoLibrary(f) == f.logical_name.none \/ f.logical_name.s = <<>>

\* The fields of a line without library token and without extra tokens.
PlainWords(f, c) ==
    (IF f.file_type = "systemVerilogSource" THEN <<S_sv>> ELSE <<>>)
    \o [k \in 1..Len(c.vlogdefine) |->
            S_define \o c.vlogdefine[k].k \o S_eq \o ParamValueStr(c.vlogdefine[k].v)]
    \o [k \in 1..Len(c.vlogparam) |->
            c.vlogparam[k].k \o S_eq \o ParamValueStr(c.vlogparam[k].v)]
    \o [k \in 1..Len(c.incdirs) |-> S_incdir \o c.incdirs[k]]
    \o <<f.name>>

\* C9: a library name that is None or empty, and tool options without the
\* vlan_opts key or with an empty list, raise no error: the call fails on
\* an open() only, and the line has no library token and no extra token.
C9_MissingOptional ==
    /\ pc = "raised" => err # "none"
    /\ pc = "returned" =>
        LET el == Lines(disk.emu.data)
            sl == Lines(disk.sim.data)
        IN /\ Len(el) = Len(emu_log)
           /\ Len(sl) = Len(sim_log)
           /\ \A n \in 1..Len(emu_log) :
                LET f == src_files[emu_log[n].src]
                IN /\ NoLibrary(f) => ~HasWord(el[n], <<"-", "l", "i", "b">>)
                   /\ (NoLibrary(f) /\ NoExtraTokens(cfg)) => Words(el[n]) = PlainWords(f, cfg)
           /\ \A n \in 1..Len(sim_log) :
                LET f == src_files[sim_log[n].src]
                IN /\ NoLibrary(f) => ~HasWord(sl[n], <<"-", "l", "i", "b">>)
                   /\ (NoLibrary(f) /\ NoExtraTokens(cfg)) => Words(sl[n]) = PlainWords(f, cfg)

C9_Witness ==
    /\ pc = "returned"
    /\ "vlan_opts" \notin cfg.tool_options.keys
    /\ \E n \in 1..Len(emu_log) : src_files[emu_log[n].src].logical_name = PyNone
    /\ \E n \in 1..Len(emu_log) : src_files[emu_log[n].src].logical_name = PyStr(<<>>)

\* The members of a set of indices in increasing order.
Ascending(S) == [n \in 1..Cardinality(S) |-> Nth(S, n)]

\* The line of descriptor k in a log.
TextOf(log, k) == log[CHOOSE n \in 1..Len(log) : log[n].src = k].text

\* C10: in each file the lines stand in the order their descriptors have
\* in the input list.
C10_InputOrder ==
    pc = "returned" =>
        LET el == Lines(disk.emu.data)
            sl == Lines(disk.sim.data)
            ea == Ascending(Srcs(emu_log))
            sa == Ascending(Srcs(sim_log))
        IN /\ Len(el) = Len(ea)
           /\ Len(sl) = Len(sa)
           /\ \A n \in 1..Len(ea) : el[n] \o NL = TextOf(emu_log, ea[n])
           /\ \A n \in 1..Len(sa) : sl[n] \o NL = TextOf(sim_log, sa[n])

C10_Witness ==
    /\ pc = "returned"
    /\ Len(emu_log) = 2
    /\ emu_log[1].text # emu_log[2].text
====
